---- MODULE Spec2Model ----
\* mcp-graphql: the tool handlers of src/index.ts (introspect-schema,
\* query-graphql, the graphql-schema resource) and the HTTP session manager of
\* main() (the transports registry, the POST/GET/DELETE handlers, the SIGINT
\* shutdown handler), and the operation compiler of src/helpers/operations.ts
\* (comment extraction, variable validators, the directory loader).
EXTENDS Naturals, Sequences, FiniteSets

VARIABLES
    env,        \* the parsed environment (ALLOW_MUTATIONS, SCHEMA, TRANSPORT)
    call,       \* the tool invocation in progress: position, arguments, result
    ncalls,     \* tool invocations started so far
    transports, \* the registry: session id -> transport handle (0: no entry)
    handles,    \* every StreamableHTTPServerTransport created so far
    reqs,       \* the HTTP requests: position in their handler, response
    nextSid,    \* state of the session id generator (randomUUID)
    sigint,     \* position of the SIGINT handler
    listening,  \* the HTTP listener accepts connections
    acked,      \* history: session ids whose DELETE was answered 200
    scan,       \* extractDescriptionFromComments: the file text and the result
    conv,       \* graphqlTypeToZod: the variable definition and the validator
    folder,     \* the operations folder on disk
    load,       \* loadGraphQLOperations: position, locals, returned value
    boot        \* startup: process.env as given and the position of the module

toolVars == <<env, call, ncalls>>
httpVars == <<transports, handles, reqs, nextSid, sigint, listening, acked>>
opsVars == <<scan, conv, folder, load>>
vars == <<env, call, ncalls, transports, handles, reqs, nextSid, sigint, listening, acked,
          scan, conv, folder, load, boot>>

\* ------------------------------------------------------------------ bounds

\* Tool invocations per behaviour.
MaxCalls == 2
\* Definitions in one query document.
MaxDefs == 2
\* HTTP requests the server holds at one time (in progress, or answered with
\* the connection still open); any number of requests may follow one another.
MaxReqs == 1
\* Session ids the generator hands out.
MaxSessions == 2
\* Transport handles created per behaviour.
MaxHandles == 2
\* HTTP requests the server holds at one time where requests run side by side.
MaxPair == 2

\* ----------------------------------------------------------- environment

\* Strings that the code inspects character by character are sequences of
\* one-character strings.
HttpPrefix == <<"h", "t", "t", "p", ":", "/", "/">>
HttpsPrefix == <<"h", "t", "t", "p", "s", ":", "/", "/">>

\* String.prototype.startsWith
StartsWith(s, p) == Len(s) >= Len(p) /\ SubSeq(s, 1, Len(p)) = p

\* SCHEMA: z.string().optional(): undefined, or any string (the empty one too).
SchemaValues ==
    { [defined |-> FALSE, value |-> <<>>],
      [defined |-> TRUE, value |-> <<>>],
      [defined |-> TRUE, value |-> <<"s", ".", "g", "q", "l">>],
      [defined |-> TRUE, value |-> <<"h", "t", "t", "p">>],
      [defined |-> TRUE, value |-> HttpPrefix \o <<"h">>],
      [defined |-> TRUE, value |-> HttpsPrefix \o <<"h">>] }

\* The environments EnvSchema.parse accepts, as far as the handlers read them.
ToolEnvs ==
    [ALLOW_MUTATIONS : BOOLEAN, SCHEMA : SchemaValues, TRANSPORT : {"stdio"}]

\* JavaScript truthiness of env.SCHEMA: undefined and "" are falsy.
Truthy(s) == s.defined /\ s.value # <<>>

\* -------------------------------------------------------- query documents

\* A query text is a sequence of source items, each one whole definition of the
\* GraphQL grammar or a piece of text that is no definition.
\*   "query" "mutation" "subscription": an operation with that keyword
\*   "{}": the query shorthand (a selection set without a keyword)
\*   "fragment": a fragment definition;  "type": a type-system definition
\*   "?": text the grammar rejects
SourceItems == {"query", "mutation", "subscription", "{}", "fragment", "type", "?"}

QueryTexts == UNION { [1..n -> SourceItems] : n \in 0..MaxDefs }

\* Two operations with a name and a variable, as operation files hold them.
GetUserItem == "query GetUser($id: ID!) { user(id: $id) { id } }"
CreateUserItem == "mutation CreateUser($input: CreateUserInput!) {...}"
ByTagsItem == "query ByTags($tags: [[String]], $first: Int) {...}"

\* An OperationDefinitionNode; name "" stands for an operation without a name.
OperationDefinition(operation, name, variableDefinitions) ==
    [kind |-> "OperationDefinition", operation |-> operation, name |-> name,
     variableDefinitions |-> variableDefinitions]

\* A definition that is no operation.
OtherDefinition(kind) ==
    [kind |-> kind, operation |-> "", name |-> "", variableDefinitions |-> <<>>]

\* What parse() makes of one definition.
ParseDefinition(item) ==
    CASE item = "query" -> OperationDefinition("query", "", <<>>)
      [] item = "{}" -> OperationDefinition("query", "", <<>>)
      [] item = "mutation" -> OperationDefinition("mutation", "", <<>>)
      [] item = "subscription" -> OperationDefinition("subscription", "", <<>>)
      [] item = GetUserItem ->
            OperationDefinition("query", "GetUser",
                <<[name |-> "id",
                   type |-> [kind |-> "NonNullType",
                             type |-> [kind |-> "NamedType", name |-> <<"ID">>]],
                   hasDefaultValue |-> FALSE]>>)
      [] item = CreateUserItem ->
            OperationDefinition("mutation", "CreateUser",
                <<[name |-> "input",
                   type |-> [kind |-> "NonNullType",
                             type |-> [kind |-> "NamedType",
                                       name |-> <<"CreateUser", "Input">>]],
                   hasDefaultValue |-> FALSE]>>)
      [] item = ByTagsItem ->
            OperationDefinition("query", "ByTags",
                <<[name |-> "tags",
                   type |-> [kind |-> "ListType",
                             type |-> [kind |-> "ListType",
                                       type |-> [kind |-> "NamedType",
                                                 name |-> <<"String">>]]],
                   hasDefaultValue |-> FALSE],
                  [name |-> "first",
                   type |-> [kind |-> "NamedType", name |-> <<"Int">>],
                   hasDefaultValue |-> FALSE]>>)
      [] item = "fragment" -> OtherDefinition("FragmentDefinition")
      [] OTHER -> OtherDefinition("ObjectTypeDefinition")

\* parse with a slip: a text with no definition is taken for a document.
parseAcceptingEmpty(query) ==
    IF \E i \in 1..Len(query) : query[i] = "?"
    THEN [ok |-> FALSE, definitions |-> <<>>]
    ELSE [ok |-> TRUE,
          definitions |-> [i \in 1..Len(query) |-> ParseDefinition(query[i])]]

\* parse(query) of graphql/language/parser: a syntax error for a text with no
\* definition or with text that is no definition, a document otherwise.
parse(query) ==
    IF query = <<>> \/ \E i \in 1..Len(query) : query[i] = "?"
    THEN [ok |-> FALSE, definitions |-> <<>>]
    ELSE [ok |-> TRUE,
          definitions |-> [i \in 1..Len(query) |-> ParseDefinition(query[i])]]

\* isMutation with a slip: only the first definition is inspected.
isMutationFirstOnly(definitions) ==
    /\ Len(definitions) > 0
    /\ definitions[1].kind = "OperationDefinition"
    /\ definitions[1].operation = "mutation"

\* isMutation with a slip: every operation that is not a query is taken for
\* a mutation.
isMutationNotQuery(definitions) ==
    \E i \in 1..Len(definitions) :
        /\ definitions[i].kind = "OperationDefinition"
        /\ definitions[i].operation # "query"

\* parsedQuery.definitions.some(def => def.kind === "OperationDefinition"
\*                                     && def.operation === "mutation")
isMutation(definitions) ==
    \E i \in 1..Len(definitions) :
        /\ definitions[i].kind = "OperationDefinition"
        /\ definitions[i].operation = "mutation"

\* ------------------------------------------------------ backend responses

\* The body of an HTTP response, as far as the handler can tell bodies apart:
\* whether the stream can be read to its end, whether the text is JSON, whether
\* the JSON value is null or an object, and the object's "errors" member.
BodyStreamError ==
    [readable |-> FALSE, json |-> "none", hasErrors |-> FALSE, errors |-> <<>>]
BodyNotJson ==
    [readable |-> TRUE, json |-> "invalid", hasErrors |-> FALSE, errors |-> <<>>]
BodyNull ==
    [readable |-> TRUE, json |-> "null", hasErrors |-> FALSE, errors |-> <<>>]
BodyData ==
    [readable |-> TRUE, json |-> "object", hasErrors |-> FALSE, errors |-> <<>>]
BodyEmptyErrors ==
    [readable |-> TRUE, json |-> "object", hasErrors |-> TRUE, errors |-> <<>>]
BodyErrors ==
    [readable |-> TRUE, json |-> "object", hasErrors |-> TRUE, errors |-> <<"e">>]

Bodies ==
    {BodyStreamError, BodyNotJson, BodyNull, BodyData, BodyEmptyErrors, BodyErrors}

\* What `await fetch(...)` settles to: a rejection (no response), or a response
\* with response.ok and a body.
NoResponse == [arrived |-> FALSE, ok |-> FALSE, body |-> BodyStreamError]
FetchOutcomes == {NoResponse} \cup [arrived : {TRUE}, ok : BOOLEAN, body : Bodies]

\* ------------------------------------------------------- tool invocations

\* The `variables` argument: z.string().optional()
VariablesValues == {"undefined", "{\"id\":1}"}

NoResult == [tag |-> "none", text |-> "", format |-> "none", body |-> BodyStreamError]

\* { isError: true, content: [{ type: "text", text }] }
ErrorResult(text, format, body) ==
    [tag |-> "error", text |-> text, format |-> format, body |-> body]

\* { content: [{ type: "text", text }] }
OkResult(text, format, body) ==
    [tag |-> "ok", text |-> text, format |-> format, body |-> body]

\* throw new Error(text): the handler's promise rejects
Thrown(text) ==
    [tag |-> "thrown", text |-> text, format |-> "none", body |-> BodyStreamError]

Idle ==
    [pc |-> "idle", tool |-> "none", query |-> <<>>, variables |-> "undefined",
     requests |-> <<>>, response |-> NoResponse,
     helper |-> "none", helperArg |-> <<>>, result |-> NoResult]

\* The handler has been called with its arguments.
Received(tool, query, variables) ==
    [Idle EXCEPT !.pc = "received", !.tool = tool, !.query = query,
                 !.variables = variables]

Terminal == {"rejected", "success", "backend-error", "thrown"}

\* query-graphql, the first try block: parse, then the mutation check.
QueryValidate(c, allow) ==
    LET parsedQuery == parse(c.query) IN
    IF ~parsedQuery.ok
    THEN [c EXCEPT !.pc = "rejected",
                   !.result = ErrorResult("Invalid GraphQL query", "none", BodyStreamError)]
    ELSE IF isMutation(parsedQuery.definitions) /\ ~allow
    THEN [c EXCEPT !.pc = "rejected",
                   !.result = ErrorResult("Mutations are not allowed", "none", BodyStreamError)]
    ELSE [c EXCEPT !.pc = "validated"]

\* query-graphql: fetch(env.ENDPOINT, { method: "POST", body: {query, variables} })
QueryDispatch(c) ==
    [c EXCEPT !.pc = "dispatched",
              !.requests = Append(c.requests,
                  [method |-> "POST", query |-> c.query, variables |-> c.variables])]

\* query-graphql: the fetch settles; a rejection lands in the second catch.
QuerySettle(c, net) ==
    IF ~net.arrived
    THEN [c EXCEPT !.pc = "thrown",
                   !.result = Thrown("Failed to execute GraphQL query")]
    ELSE [c EXCEPT !.pc = "responded", !.response = net]

\* query-graphql: the response is read and shaped into the result.
QueryRead(c) ==
    LET r == c.response IN
    IF ~r.ok
    THEN \* await response.text()
         IF ~r.body.readable
         THEN [c EXCEPT !.pc = "thrown",
                        !.result = Thrown("Failed to execute GraphQL query")]
         ELSE [c EXCEPT !.pc = "backend-error",
                        !.result = ErrorResult("GraphQL request failed", "raw", r.body)]
    ELSE \* await response.json(), then data.errors
         IF ~r.body.readable \/ r.body.json # "object"
         THEN [c EXCEPT !.pc = "thrown",
                        !.result = Thrown("Failed to execute GraphQL query")]
         ELSE IF r.body.hasErrors /\ Len(r.body.errors) > 0
         THEN [c EXCEPT !.pc = "backend-error",
                        !.result = ErrorResult("The GraphQL response has errors",
                                               "pretty", r.body)]
         ELSE [c EXCEPT !.pc = "success", !.result = OkResult("", "pretty", r.body)]

\* The whole query-graphql handler on one input and one backend behaviour.
RunQuery(allow, query, variables, net) ==
    LET c1 == QueryValidate(Received("query-graphql", query, variables), allow)
        c2 == IF c1.pc = "validated" THEN QuerySettle(QueryDispatch(c1), net) ELSE c1
    IN  IF c2.pc = "responded" THEN QueryRead(c2) ELSE c2

\* introspect-schema, lines 94-99: which helper resolves the schema.
IntrospectResolve(c, e) ==
    IF Truthy(e.SCHEMA)
    THEN [c EXCEPT !.pc = "resolving", !.helper = "introspectLocalSchema",
                   !.helperArg = e.SCHEMA.value]
    ELSE [c EXCEPT !.pc = "resolving", !.helper = "introspectEndpoint",
                   !.helperArg = <<>>]

\* The graphql-schema resource, lines 54-66: which helper resolves the schema.
ResourceResolve(c, e) ==
    IF Truthy(e.SCHEMA)
    THEN IF StartsWith(e.SCHEMA.value, HttpPrefix) \/ StartsWith(e.SCHEMA.value, HttpsPrefix)
         THEN [c EXCEPT !.pc = "resolving", !.helper = "introspectSchemaFromUrl",
                        !.helperArg = e.SCHEMA.value]
         ELSE [c EXCEPT !.pc = "resolving", !.helper = "introspectLocalSchema",
                        !.helperArg = e.SCHEMA.value]
    ELSE [c EXCEPT !.pc = "resolving", !.helper = "introspectEndpoint",
                   !.helperArg = <<>>]

\* HelperSettle with a slip: the tool's catch block rethrows as the resource's
\* does.
HelperSettleRethrowing(c, ok) ==
    IF ok
    THEN [c EXCEPT !.pc = "success", !.result = OkResult("schema", "none", BodyStreamError)]
    ELSE [c EXCEPT !.pc = "thrown", !.result = Thrown("Failed to get GraphQL schema")]

\* The awaited helper settles: the schema text is returned, or the catch block
\* runs (the tool returns an error result, the resource throws).
HelperSettle(c, ok) ==
    IF ok
    THEN [c EXCEPT !.pc = "success", !.result = OkResult("schema", "none", BodyStreamError)]
    ELSE IF c.tool = "introspect-schema"
    THEN [c EXCEPT !.pc = "backend-error",
                   !.result = ErrorResult("Failed to introspect schema", "none",
                                          BodyStreamError)]
    ELSE [c EXCEPT !.pc = "thrown", !.result = Thrown("Failed to get GraphQL schema")]

\* The tools index.ts registers with server.tool (lines 81 and 123).
RegisteredTools == {"introspect-schema", "query-graphql"}

\* ------------------------------------------------- actions: tool handlers

\* The SDK calls a tool handler, or the resource callback, with its arguments.
Invoke ==
    /\ call.pc = "idle"
    /\ ncalls < MaxCalls
    /\ \/ \E q \in QueryTexts, v \in VariablesValues :
            call' = Received("query-graphql", q, v)
       \/ \E t \in {"introspect-schema", "graphql-schema"} :
            call' = Received(t, <<>>, "undefined")
    /\ ncalls' = ncalls + 1
    /\ UNCHANGED <<env, httpVars, opsVars, boot>>

\* The handler's promise has settled: the SDK has the result (or the thrown
\* error) and the invocation is over.
Return ==
    /\ call.pc \in Terminal
    /\ call' = Idle
    /\ UNCHANGED <<env, ncalls, httpVars, opsVars, boot>>

Validate ==
    /\ call.pc = "received"
    /\ call.tool = "query-graphql"
    /\ call' = QueryValidate(call, env.ALLOW_MUTATIONS)
    /\ UNCHANGED <<env, ncalls, httpVars, opsVars, boot>>

Dispatch ==
    /\ call.pc = "validated"
    /\ call' = QueryDispatch(call)
    /\ UNCHANGED <<env, ncalls, httpVars, opsVars, boot>>

FetchSettles ==
    /\ call.pc = "dispatched"
    /\ \E net \in FetchOutcomes : call' = QuerySettle(call, net)
    /\ UNCHANGED <<env, ncalls, httpVars, opsVars, boot>>

ReadBody ==
    /\ call.pc = "responded"
    /\ call' = QueryRead(call)
    /\ UNCHANGED <<env, ncalls, httpVars, opsVars, boot>>

Introspect ==
    /\ call.pc = "received"
    /\ call.tool = "introspect-schema"
    /\ call' = IntrospectResolve(call, env)
    /\ UNCHANGED <<env, ncalls, httpVars, opsVars, boot>>

ReadResource ==
    /\ call.pc = "received"
    /\ call.tool = "graphql-schema"
    /\ call' = ResourceResolve(call, env)
    /\ UNCHANGED <<env, ncalls, httpVars, opsVars, boot>>

HelperSettles ==
    /\ call.pc = "resolving"
    /\ \E ok \in BOOLEAN : call' = HelperSettle(call, ok)
    /\ UNCHANGED <<env, ncalls, httpVars, opsVars, boot>>

\* ---------------------------------------------------------- HTTP: state

\* The mcp-session-id header is absent (or empty: both are falsy).
NoSid == 0
\* The ids randomUUID() hands out, in the order it hands them out.
IssuedIds == 1..MaxSessions
\* An id the server never issued.
Bogus == MaxSessions + 1
Sids == IssuedIds \cup {Bogus}

\* const transports: Record<string, any> = {}
EmptyRegistry == [s \in Sids |-> 0]

\* transports[sessionId]: undefined (0) without an entry.
Lookup(reg, sid) == IF sid \in Sids THEN reg[sid] ELSE 0

\* The guard with a slip: only the header's presence is tested.
SessionMissingHeaderOnly(reg, sid) == sid = NoSid

\* !sessionId || !transports[sessionId]
SessionMissing(reg, sid) == sid = NoSid \/ Lookup(reg, sid) = 0

\* new StreamableHTTPServerTransport({...}), with transport.onclose set
NewHandle == [sessionId |-> NoSid, connected |-> FALSE, closed |-> FALSE]

\* A POST body: not JSON, an initialize request, any other JSON-RPC message.
PostBodies == {"invalid", "initialize", "call"}

NewRequest(method, sid, body) ==
    [method |-> method, sid |-> sid, body |-> body, pc |-> "arrived",
     transport |-> 0, isNew |-> FALSE, threw |-> FALSE, resp |-> "none",
     late |-> sid \in acked]

\* res.writeHead(...); res.end(...): the request is answered.
Answer(r, resp) == [r EXCEPT !.pc = "done", !.resp = resp]

Running == sigint.pc # "exited"

\* The standalone SSE stream of handle h is open.
HasStream(rs, h) ==
    \E j \in 1..Len(rs) : rs[j].pc = "streaming" /\ rs[j].transport = h

\* transport.onclose with a slip: the registry entry stays.
OnCloseKeepingEntry(reg, h) == reg

\* transport.onclose with a slip: the registry is emptied.
OnCloseClearingAll(reg, h) == EmptyRegistry

\* transport.onclose, lines 277-283: the registry entry of the handle's session
\* is deleted.
OnClose(reg, h) ==
    LET sid == handles[h].sessionId IN
    IF sid # NoSid /\ Lookup(reg, sid) # 0
    THEN [reg EXCEPT ![sid] = 0]
    ELSE reg

\* transport.close() of the SDK: the handle's streams are ended and onclose
\* runs.
CloseStreams(rs, h) ==
    [j \in 1..Len(rs) |->
        IF rs[j].pc = "streaming" /\ rs[j].transport = h
        THEN Answer(rs[j], "stream-ended")
        ELSE rs[j]]

\* ------------------------------------------------ actions: HTTP handlers

\* transport.handleRequest(req, res, parsedBody) for a POST, called by request
\* i on handle h: an initialize request gives the handle its session id and
\* onsessioninitialized stores the handle in the registry (line 272); any
\* other message is refused by a handle that has no session; the call may
\* throw.
HandlePost(i, h, rs) ==
    \/ /\ rs[i].body = "initialize"
       /\ handles[h].sessionId = NoSid
       /\ nextSid <= MaxSessions
       /\ handles' = [handles EXCEPT ![h].sessionId = nextSid]
       /\ transports' = [transports EXCEPT ![nextSid] = h]
       /\ nextSid' = nextSid + 1
       /\ reqs' = [rs EXCEPT ![i].pc = "handling"]
    \/ /\ rs[i].body = "initialize"
       /\ handles[h].sessionId # NoSid
       /\ reqs' = [rs EXCEPT ![i] = Answer(rs[i], "400-already-initialized")]
       /\ UNCHANGED <<handles, transports, nextSid>>
    \/ /\ rs[i].body = "call"
       /\ handles[h].sessionId = NoSid
       /\ reqs' = [rs EXCEPT ![i] = Answer(rs[i], "400-not-initialized")]
       /\ UNCHANGED <<handles, transports, nextSid>>
    \/ /\ rs[i].body = "call"
       /\ handles[h].sessionId # NoSid
       /\ reqs' = [rs EXCEPT ![i] =
                      IF rs[i].sid = handles[h].sessionId
                      THEN [rs[i] EXCEPT !.pc = "handling"]
                      ELSE Answer(rs[i], "404-transport-session")]
       /\ UNCHANGED <<handles, transports, nextSid>>
    \/ \* handleRequest throws: the catch of line 291 answers
       /\ reqs' = [rs EXCEPT ![i] = Answer(rs[i], "400-parse")]
       /\ UNCHANGED <<handles, transports, nextSid>>

\* A POST arrives: the data and end listeners are registered (lines 249-256).
PostArriveWithin(limit) ==
    /\ Running /\ listening
    /\ Len(reqs) < limit
    /\ \E sid \in {NoSid, Bogus} \cup 1..(nextSid - 1), body \in PostBodies :
          reqs' = Append(reqs, [NewRequest("POST", sid, body) EXCEPT !.pc = "reading"])
    /\ UNCHANGED <<transports, handles, nextSid, sigint, listening, acked, toolVars, opsVars, boot>>

PostArrive == PostArriveWithin(MaxReqs)

\* The "end" listener with a slip: the body is handed on without JSON.parse,
\* so a body that is not JSON reaches a handle like any other message.
PostEndUnparsed(i) ==
    /\ Running
    /\ reqs[i].pc = "reading"
    /\ LET r == reqs[i] IN
       IF r.sid # NoSid /\ Lookup(transports, r.sid) # 0
       THEN /\ reqs' = [reqs EXCEPT ![i] = Answer([r EXCEPT !.transport = Lookup(transports, r.sid)],
                                                  "400-parse")]
            /\ UNCHANGED <<transports, handles, nextSid>>
       ELSE /\ Len(handles) < MaxHandles
            /\ \E ok \in BOOLEAN :
                 /\ handles' = Append(handles, [NewHandle EXCEPT !.connected = ok])
                 /\ reqs' = [reqs EXCEPT ![i].pc = "connecting",
                                         ![i].transport = Len(handles) + 1,
                                         ![i].isNew = TRUE,
                                         ![i].threw = ~ok]
            /\ UNCHANGED <<transports, nextSid>>
    /\ UNCHANGED <<sigint, listening, acked, toolVars, opsVars, boot>>

\* The body has been read (the "end" listener, lines 256-290): parse it, pick
\* the session's handle or create a new one and connect the server to it.
PostEnd(i) ==
    /\ Running
    /\ reqs[i].pc = "reading"
    /\ LET r == reqs[i] IN
       IF r.body = "invalid"
       THEN /\ reqs' = [reqs EXCEPT ![i] = Answer(r, "400-parse")]
            /\ UNCHANGED <<transports, handles, nextSid>>
       ELSE IF r.sid # NoSid /\ Lookup(transports, r.sid) # 0
       THEN HandlePost(i, Lookup(transports, r.sid),
                       [reqs EXCEPT ![i].transport = Lookup(transports, r.sid)])
       ELSE /\ Len(handles) < MaxHandles
            /\ \E ok \in BOOLEAN :
                 /\ handles' = Append(handles, [NewHandle EXCEPT !.connected = ok])
                 /\ reqs' = [reqs EXCEPT ![i].pc = "connecting",
                                         ![i].transport = Len(handles) + 1,
                                         ![i].isNew = TRUE,
                                         ![i].threw = ~ok]
            /\ UNCHANGED <<transports, nextSid>>
    /\ UNCHANGED <<sigint, listening, acked, toolVars, opsVars, boot>>

\* await server.connect(transport) settles (line 286); then line 290.
PostConnected(i) ==
    /\ Running
    /\ reqs[i].pc = "connecting"
    /\ IF reqs[i].threw
       THEN /\ reqs' = [reqs EXCEPT ![i] = Answer(reqs[i], "400-parse")]
            /\ UNCHANGED <<transports, handles, nextSid>>
       ELSE HandlePost(i, reqs[i].transport, reqs)
    /\ UNCHANGED <<sigint, listening, acked, toolVars, opsVars, boot>>

\* The server's JSON-RPC response is written through the handle; a handle
\* closed in the meantime has dropped the response.
PostRespond(i) ==
    /\ Running
    /\ reqs[i].pc = "handling"
    /\ reqs' = [reqs EXCEPT ![i] =
                   IF handles[reqs[i].transport].closed
                   THEN Answer(reqs[i], "dropped")
                   ELSE IF reqs[i].body = "initialize"
                   THEN Answer(reqs[i], "200-initialized")
                   ELSE Answer(reqs[i], "200-rpc")]
    /\ UNCHANGED <<transports, handles, nextSid, sigint, listening, acked, toolVars, opsVars, boot>>

\* A GET arrives (lines 306-327): 404 without a registry entry, else the
\* handle opens the SSE stream (409 when it has one), or the call throws and the
\* outer catch answers 500.
GetWithin(limit) ==
    /\ Running /\ listening
    /\ Len(reqs) < limit
    /\ \E sid \in {NoSid, Bogus} \cup 1..(nextSid - 1) :
          LET r == NewRequest("GET", sid, "none")
              h == Lookup(transports, sid)
          IN  IF SessionMissing(transports, sid)
              THEN reqs' = Append(reqs, Answer(r, "404-session"))
              ELSE \/ /\ h # 0
                      /\ reqs' = Append(reqs,
                            IF HasStream(reqs, h)
                            THEN Answer([r EXCEPT !.transport = h], "409-conflict")
                            ELSE [r EXCEPT !.transport = h, !.pc = "streaming"])
                   \/ reqs' = Append(reqs, Answer([r EXCEPT !.transport = h], "500-internal"))
    /\ UNCHANGED <<transports, handles, nextSid, sigint, listening, acked, toolVars, opsVars, boot>>

Get == GetWithin(MaxReqs)

\* The peer closes its SSE stream.
Disconnect(i) ==
    /\ Running
    /\ reqs[i].pc = "streaming"
    /\ reqs' = [reqs EXCEPT ![i] = Answer(reqs[i], "stream-closed-by-peer")]
    /\ UNCHANGED <<transports, handles, nextSid, sigint, listening, acked, toolVars, opsVars, boot>>

\* A DELETE arrives (lines 306-331): 404 without a registry entry, else
\* transport.close() is called; it closes the handle, or throws.
DeleteWithin(limit) ==
    /\ Running /\ listening
    /\ Len(reqs) < limit
    /\ \E sid \in {NoSid, Bogus} \cup 1..(nextSid - 1) :
          LET r == NewRequest("DELETE", sid, "none")
              h == Lookup(transports, sid)
              closing == [r EXCEPT !.transport = h, !.pc = "closing"]
          IN  IF SessionMissing(transports, sid)
              THEN /\ reqs' = Append(reqs, Answer(r, "404-session"))
                   /\ UNCHANGED <<transports, handles>>
              ELSE \/ /\ h # 0
                      /\ handles' = [handles EXCEPT ![h].closed = TRUE]
                      /\ transports' = OnClose(transports, h)
                      /\ reqs' = Append(CloseStreams(reqs, h), closing)
                   \/ /\ reqs' = Append(reqs, [closing EXCEPT !.threw = TRUE])
                      /\ UNCHANGED <<transports, handles>>
    /\ UNCHANGED <<nextSid, sigint, listening, acked, toolVars, opsVars, boot>>

Delete == DeleteWithin(MaxReqs)

\* await transport.close() settles (lines 331-346): the entry is deleted and
\* 200 is sent, or the catch sends 500.
DeleteResume(i) ==
    /\ Running
    /\ reqs[i].pc = "closing"
    /\ IF reqs[i].threw
       THEN /\ reqs' = [reqs EXCEPT ![i] = Answer(reqs[i], "500-internal")]
            /\ UNCHANGED <<transports, acked>>
       ELSE /\ transports' = [transports EXCEPT ![reqs[i].sid] = 0]
            /\ reqs' = [reqs EXCEPT ![i] = Answer(reqs[i], "200-deleted")]
            /\ acked' = acked \cup {reqs[i].sid}
    /\ UNCHANGED <<handles, nextSid, sigint, listening, toolVars, opsVars, boot>>

\* OPTIONS is answered 200 (lines 243-247), any other method 405 (348-357).
OtherMethodWithin(limit) ==
    /\ Running /\ listening
    /\ Len(reqs) < limit
    /\ \E m \in {"OPTIONS", "PUT"} :
          reqs' = Append(reqs, Answer(NewRequest(m, NoSid, "none"),
                                      IF m = "OPTIONS" THEN "200-options" ELSE "405-method"))
    /\ UNCHANGED <<transports, handles, nextSid, sigint, listening, acked, toolVars, opsVars, boot>>

OtherMethod == OtherMethodWithin(MaxReqs)

\* The connection of an answered request ends.
ConnectionEnds(i) ==
    /\ Running
    /\ reqs[i].pc = "done"
    /\ reqs' = [j \in 1..(Len(reqs) - 1) |-> IF j < i THEN reqs[j] ELSE reqs[j + 1]]
    /\ UNCHANGED <<transports, handles, nextSid, sigint, listening, acked, toolVars, opsVars, boot>>

\* ------------------------------------------------------ actions: shutdown

\* for (const sessionId in transports): the keys as they are when the loop
\* starts, in insertion order.
RegistryKeys(reg) ==
    LET F[n \in 0..(MaxSessions + 1)] ==
            IF n = 0 THEN <<>>
            ELSE IF reg[n] # 0 THEN Append(F[n - 1], n) ELSE F[n - 1]
    IN  F[MaxSessions + 1]

\* for-in skips a key deleted before it is visited.
RECURSIVE SkipDeleted(_, _)
SkipDeleted(keys, reg) ==
    IF keys = <<>> \/ reg[Head(keys)] # 0 THEN keys ELSE SkipDeleted(Tail(keys), reg)

\* The loop of lines 386-393 from its head to its next await: the next key's
\* handle is closed (or its close() throws), or, with no key left,
\* httpServer.close() stops the listener (line 395).
ShutdownLoop(keys) ==
    LET live == SkipDeleted(keys, transports) IN
    IF live = <<>>
    THEN /\ sigint' = [pc |-> "closed", keys |-> <<>>, threw |-> FALSE]
         /\ listening' = FALSE
         /\ UNCHANGED <<transports, handles, reqs>>
    ELSE LET h == transports[Head(live)] IN
         /\ listening' = listening
         /\ \/ /\ sigint' = [pc |-> "awaitClose", keys |-> live, threw |-> FALSE]
               /\ handles' = [handles EXCEPT ![h].closed = TRUE]
               /\ transports' = OnClose(transports, h)
               /\ reqs' = CloseStreams(reqs, h)
            \/ /\ sigint' = [pc |-> "awaitClose", keys |-> live, threw |-> TRUE]
               /\ UNCHANGED <<transports, handles, reqs>>

\* SIGINT is delivered: the handler of lines 382-399 starts.
Sigint ==
    /\ sigint.pc = "none"
    /\ ShutdownLoop(RegistryKeys(transports))
    /\ UNCHANGED <<nextSid, acked, toolVars, opsVars, boot>>

\* await transports[sessionId].close() settles: the entry is deleted (line
\* 389) unless close() threw, and the loop goes on.
SigintResume ==
    /\ sigint.pc = "awaitClose"
    /\ LET k == Head(sigint.keys) IN
       IF sigint.threw
       THEN ShutdownLoop(Tail(sigint.keys))
       ELSE /\ sigint' = [pc |-> "deleted", keys |-> Tail(sigint.keys), threw |-> FALSE]
            /\ transports' = [transports EXCEPT ![k] = 0]
            /\ UNCHANGED <<handles, reqs, listening>>
    /\ UNCHANGED <<nextSid, acked, toolVars, opsVars, boot>>

\* The rest of the iteration that deleted its entry: back to the loop's head.
SigintLoop ==
    /\ sigint.pc = "deleted"
    /\ ShutdownLoop(sigint.keys)
    /\ UNCHANGED <<nextSid, acked, toolVars, opsVars, boot>>

\* Every connection has ended: the callback of httpServer.close runs
\* process.exit(0) (lines 395-398).
Exit ==
    /\ sigint.pc = "closed"
    /\ reqs = <<>>
    /\ sigint' = [sigint EXCEPT !.pc = "exited"]
    /\ UNCHANGED <<transports, handles, reqs, nextSid, listening, acked, toolVars, opsVars, boot>>

HttpIdle ==
    /\ transports = EmptyRegistry
    /\ handles = <<>>
    /\ reqs = <<>>
    /\ nextSid = 1
    /\ sigint = [pc |-> "none", keys |-> <<>>, threw |-> FALSE]
    /\ acked = {}

\* ------------------------------------------- operation files: the text

\* The content of an operation file is the sequence of its lines
\* (content.split('\n')); a line is a sequence of tokens: " " (white space),
\* "#", the marker "@description", words, and the source items of the GraphQL
\* grammar.
Marker == "@description"

\* Lines of file text.
BlankLine == <<>>
SpaceLine == <<" ">>
MarkerLine == <<"#", " ", "@description">>
InlineMarkerLine == <<"#", " ", "@description", ":", " ", "Creates", " ", "a", " ", "user">>
CommentLine == <<"#", " ", "a">>
IndentedCommentLine == <<" ", "#", "b", " ", "c", " ">>
EmptyCommentLine == <<"#", " ">>
QueryLine == <<"query">>
TrailingMarkerLine == <<"query", " ", "#", " ", "@description">>

SampleLines ==
    { BlankLine, SpaceLine, MarkerLine, InlineMarkerLine, CommentLine,
      IndentedCommentLine, EmptyCommentLine, QueryLine, TrailingMarkerLine }

\* Lines in one file text given to the comment extraction.
MaxLines == 4

FileTexts == UNION { [1..n -> SampleLines] : n \in 0..MaxLines }

\* String.prototype.trim, by its two ends.
RECURSIVE trimStart(_)
trimStart(line) ==
    IF line # <<>> /\ Head(line) = " " THEN trimStart(Tail(line)) ELSE line

RECURSIVE trimEnd(_)
trimEnd(line) ==
    IF line # <<>> /\ line[Len(line)] = " "
    THEN trimEnd(SubSeq(line, 1, Len(line) - 1))
    ELSE line

trim(line) == trimEnd(trimStart(line))

\* String.prototype.includes, for one token.
includes(line, token) == \E i \in 1..Len(line) : line[i] = token

\* trimmedLine.startsWith('#')
startsWithHash(line) == line # <<>> /\ Head(line) = "#"

\* Array.prototype.join
RECURSIVE join(_, _)
join(strings, separator) ==
    IF strings = <<>> THEN <<>>
    ELSE IF Len(strings) = 1 THEN Head(strings)
    ELSE Head(strings) \o <<separator>> \o join(Tail(strings), separator)

\* A value of type string | null.
Null == [null |-> TRUE, text |-> <<>>]
Str(text) == [null |-> FALSE, text |-> text]

\* The for loop of lines 24-36: the comment lines collected from `lines` on.
RECURSIVE collectComments(_, _, _)
collectComments(lines, separatorFound, commentLines) ==
    IF lines = <<>> THEN commentLines
    ELSE LET trimmedLine == trim(Head(lines))
         IN  IF includes(trimmedLine, Marker)
             THEN collectComments(Tail(lines), TRUE, commentLines)
             ELSE IF separatorFound /\ startsWithHash(trimmedLine)
             THEN collectComments(Tail(lines), separatorFound,
                                  Append(commentLines, trim(Tail(trimmedLine))))
             ELSE IF separatorFound /\ trimmedLine # <<>> /\ ~startsWithHash(trimmedLine)
             THEN commentLines
             ELSE collectComments(Tail(lines), separatorFound, commentLines)

\* extractDescriptionFromComments with a slip: the empty comment lines are
\* joined with the others.
extractKeepingEmptyLines(content) ==
    LET commentLines == collectComments(content, FALSE, <<>>)
    IN  IF Len(commentLines) = 0 THEN Null ELSE Str(join(commentLines, " "))

\* extractDescriptionFromComments(content)
extractDescriptionFromComments(content) ==
    LET commentLines == collectComments(content, FALSE, <<>>)
    IN  IF Len(commentLines) = 0
        THEN Null
        ELSE Str(join(SelectSeq(commentLines, LAMBDA line : Len(line) > 0), " "))

\* The extraction has been called with a file text.
Scanning(content) == [pc |-> "called", content |-> content, result |-> Null]
NoScan == [pc |-> "none", content |-> <<>>, result |-> Null]

\* extractDescriptionFromComments runs to its return.
Extract ==
    /\ scan.pc = "called"
    /\ scan' = [scan EXCEPT !.pc = "returned",
                            !.result = extractDescriptionFromComments(scan.content)]
    /\ UNCHANGED <<toolVars, httpVars, conv, folder, load, boot>>

\* ------------------------------------ operation files: variable validators

\* Type names are sequences of their words, so that endsWith can look at the
\* last one.
TypeNames ==
    { <<"String">>, <<"ID">>, <<"Int">>, <<"Float">>, <<"Boolean">>,
      <<"CreateUser", "Input">>, <<"Input">>, <<"User", "Type">>,
      <<"Date", "Time">>, <<"Input", "Data">> }

\* The type nodes of the GraphQL AST.
NamedType(name) == [kind |-> "NamedType", name |-> name]
ListType(type) == [kind |-> "ListType", type |-> type]
NonNullType(type) == [kind |-> "NonNullType", type |-> type]

NamedTypes == { NamedType(n) : n \in TypeNames }
\* T, T!
ItemTypes == NamedTypes \cup { NonNullType(t) : t \in NamedTypes }
\* [T], [T!]
ListTypes == { ListType(t) : t \in ItemTypes }
\* [[String]], [[String]!]
NestedListTypes ==
    { ListType(ListType(NamedType(<<"String">>))),
      ListType(NonNullType(ListType(NamedType(<<"String">>)))) }
\* Every type a variable is declared with, bare or with the outer `!`.
NullableTypes == NamedTypes \cup ListTypes \cup NestedListTypes
VariableTypes == NullableTypes \cup { NonNullType(t) : t \in NullableTypes }

\* VariableDefinitionNode: $name: type, with or without `= defaultValue`
VariableDefinition(name, type, hasDefaultValue) ==
    [name |-> name, type |-> type, hasDefaultValue |-> hasDefaultValue]

VariableDefinitions ==
    { VariableDefinition("v", t, d) : t \in VariableTypes, d \in BOOLEAN }

\* String.prototype.endsWith, for one word.
endsWith(name, word) == name # <<>> /\ name[Len(name)] = word

\* The validators: z.string(), z.number(), z.boolean(), z.record(z.any()),
\* each perhaps in z.array(...) and perhaps .optional(); or null.
ZodNull == [null |-> TRUE, base |-> "none", array |-> FALSE, optional |-> FALSE]
Zod(base, array, optional) ==
    [null |-> FALSE, base |-> base, array |-> array, optional |-> optional]

\* The switch of lines 166-187.
zodBase(typeName) ==
    IF typeName \in {<<"String">>, <<"ID">>} THEN "string"
    ELSE IF typeName \in {<<"Int">>, <<"Float">>} THEN "number"
    ELSE IF typeName = <<"Boolean">> THEN "boolean"
    ELSE IF endsWith(typeName, "Input") \/ endsWith(typeName, "Type") THEN "record"
    ELSE "string"

\* graphqlTypeToZod with a slip: a default value no longer makes the variable
\* optional.
graphqlTypeToZodIgnoringDefault(varDef) ==
    LET isRequired == varDef.type.kind = "NonNullType"
        outer == IF isRequired THEN varDef.type.type ELSE varDef.type
        isList == outer.kind = "ListType"
        item == IF isList THEN outer.type ELSE outer
        baseType == IF isList /\ item.kind = "NonNullType" THEN item.type ELSE item
    IN  IF baseType.kind # "NamedType"
        THEN ZodNull
        ELSE Zod(zodBase(baseType.name), isList, ~isRequired)

\* graphqlTypeToZod(varDef)
graphqlTypeToZod(varDef) ==
    LET hasDefaultValue == varDef.hasDefaultValue
        isRequired == varDef.type.kind = "NonNullType"
        outer == IF isRequired THEN varDef.type.type ELSE varDef.type
        isList == outer.kind = "ListType"
        item == IF isList THEN outer.type ELSE outer
        baseType == IF isList /\ item.kind = "NonNullType" THEN item.type ELSE item
    IN  IF baseType.kind # "NamedType"
        THEN ZodNull
        ELSE Zod(zodBase(baseType.name), isList, ~isRequired \/ hasDefaultValue)

\* graphqlTypeToZod has been called with a variable definition.
Converting(varDef) == [pc |-> "called", varDef |-> varDef, zodType |-> ZodNull]
NoConv == [pc |-> "none", varDef |-> VariableDefinition("", NamedType(<<>>), FALSE),
           zodType |-> ZodNull]

\* graphqlTypeToZod runs to its return.
Convert ==
    /\ conv.pc = "called"
    /\ conv' = [conv EXCEPT !.pc = "returned", !.zodType = graphqlTypeToZod(conv.varDef)]
    /\ UNCHANGED <<toolVars, httpVars, scan, folder, load, boot>>

\* ------------------------------------------- operation files: the loader

\* The source items of a file text: a '#' starts a comment that runs to the end
\* of its line, white space separates, and a token that is no definition is
\* text the grammar rejects.
FileItems == SourceItems \cup {GetUserItem, CreateUserItem, ByTagsItem}

RECURSIVE beforeComment(_)
beforeComment(line) ==
    IF line = <<>> \/ Head(line) = "#"
    THEN <<>>
    ELSE <<Head(line)>> \o beforeComment(Tail(line))

RECURSIVE sourceItems(_)
sourceItems(content) ==
    IF content = <<>>
    THEN <<>>
    ELSE LET tokens == SelectSeq(beforeComment(Head(content)), LAMBDA t : t # " ")
         IN  [i \in 1..Len(tokens) |-> IF tokens[i] \in FileItems THEN tokens[i] ELSE "?"]
             \o sourceItems(Tail(content))

\* The variables record of lines 105-115: one entry per variable name whose
\* type has a validator, a later definition of a name replacing an earlier one.
variableSchema(variableDefinitions) ==
    LET kept == { i \in 1..Len(variableDefinitions) :
                    ~graphqlTypeToZod(variableDefinitions[i]).null }
        last(n) == CHOOSE i \in kept :
                      /\ variableDefinitions[i].name = n
                      /\ \A j \in kept : variableDefinitions[j].name = n => j <= i
    IN  [n \in { variableDefinitions[i].name : i \in kept } |->
            graphqlTypeToZod(variableDefinitions[last(n)])]

\* `Execute ${operationType} operation: ${operationName}`
fallbackDescription(operationType, operationName) ==
    <<"Execute", " ", operationType, " ", "operation:", " ", operationName>>

\* parseOperationDefinition with a slip: the generated description always
\* carries the file name.
parseOperationDefinitionByFileName(definition, fileName, extractedDescription) ==
    [name |-> IF definition.name # "" THEN definition.name ELSE fileName,
     query |-> <<>>,
     variables |-> variableSchema(definition.variableDefinitions),
     description |->
        IF ~extractedDescription.null /\ extractedDescription.text # <<>>
        THEN extractedDescription.text
        ELSE fallbackDescription(definition.operation, fileName)]

\* parseOperationDefinition(definition, fileName, extractedDescription); null
\* and "" are the falsy descriptions.
parseOperationDefinition(definition, fileName, extractedDescription) ==
    LET operationName == IF definition.name # "" THEN definition.name ELSE fileName
        operationType == definition.operation
    IN  [name |-> operationName,
         query |-> <<>>,
         variables |-> variableSchema(definition.variableDefinitions),
         description |->
            IF ~extractedDescription.null /\ extractedDescription.text # <<>>
            THEN extractedDescription.text
            ELSE fallbackDescription(operationType, operationName)]

\* The operation definitions of a parsed document, in document order.
operationDefinitions(document) ==
    SelectSeq(document.definitions, LAMBDA d : d.kind = "OperationDefinition")

\* compileFile with a slip: the query stays as parseOperationDefinition left it.
compileFileWithoutQuery(file) ==
    LET extractedDescription == extractDescriptionFromComments(file.content)
        document == parse(sourceItems(file.content))
    IN  IF ~document.ok
        THEN <<>>
        ELSE LET definitions == operationDefinitions(document)
             IN  [j \in 1..Len(definitions) |->
                    parseOperationDefinition(definitions[j], file.base, extractedDescription)]

\* The body of the file loop after the file was read (lines 62-80): the
\* operations it pushes. A text parse() rejects is logged and pushes nothing.
compileFile(file) ==
    LET extractedDescription == extractDescriptionFromComments(file.content)
        document == parse(sourceItems(file.content))
    IN  IF ~document.ok
        THEN <<>>
        ELSE LET definitions == operationDefinitions(document)
             IN  [j \in 1..Len(definitions) |->
                    [parseOperationDefinition(definitions[j], file.base,
                                              extractedDescription)
                        EXCEPT !.query = file.content]]

\* File texts in an operations folder.
GetUserText == << <<GetUserItem>> >>
CreateUserText == << InlineMarkerLine, <<CreateUserItem>> >>
DescribedText == << MarkerLine, CommentLine, <<"query">>, <<"mutation">> >>
BrokenText == << <<"?">> >>
MixedText == << CommentLine, <<"fragment">>, <<GetUserItem>>, <<"{}">> >>
CommentOnlyText == << CommentLine >>
ByTagsText == << <<ByTagsItem>> >>

Contents ==
    { GetUserText, CreateUserText, DescribedText, BrokenText, MixedText, CommentOnlyText,
      ByTagsText }

\* A directory entry: base name, extension, whether readFile succeeds on it
\* (it fails on a sub-directory, on a file without read permission), content.
File(base, ext, readable, content) ==
    [base |-> base, ext |-> ext, readable |-> readable, content |-> content]

GraphqlNames == {"GetUser", "Other", "Third"}

Files ==
    { File(n, ".graphql", TRUE, c) : n \in GraphqlNames, c \in Contents }
    \cup { File(n, ".graphql", FALSE, GetUserText) : n \in GraphqlNames }
    \cup { File("notes", ".txt", TRUE, GetUserText) }

\* Entries in the operations folder.
MaxFiles == 3

\* The listings readdir can give: entries in some order, no two of one name.
Listings ==
    { fs \in UNION { [1..n -> Files] : n \in 0..MaxFiles } :
        \A i, j \in 1..Len(fs) : i # j => fs[i].base # fs[j].base }

\* The folder: whether readdir succeeds on it (it fails on a missing folder
\* and on one without read permission), and its entries.
Folders ==
    [readable : {TRUE}, files : Listings]
    \cup [readable : {FALSE}, files : { fs \in Listings : Len(fs) <= 1 }]

NoFolder == [readable |-> FALSE, files |-> <<>>]

\* loadGraphQLOperations has been called and awaits readdir.
Loading ==
    [pc |-> "readdir", graphqlFiles |-> <<>>, i |-> 0, operations |-> <<>>,
     result |-> <<>>]
NotLoading == [Loading EXCEPT !.pc = "none"]

\* return from loadGraphQLOperations
Returned(l, result) == [l EXCEPT !.pc = "returned", !.result = result]

\* readdir settles (lines 53-58, 83-87): the catch returns [] when it fails;
\* else the .graphql entries are kept and the loop starts, or ends at once.
ReaddirSettles ==
    /\ load.pc = "readdir"
    /\ IF folder.readable
       THEN LET graphqlFiles == SelectSeq(folder.files, LAMBDA f : f.ext = ".graphql")
            IN  IF graphqlFiles = <<>>
                THEN load' = Returned(load, load.operations)
                ELSE load' = [load EXCEPT !.pc = "readFile",
                                          !.graphqlFiles = graphqlFiles, !.i = 1]
       ELSE load' = Returned(load, <<>>)
    /\ UNCHANGED <<toolVars, httpVars, scan, conv, folder, boot>>

\* readFile settles (lines 60-87): the catch of the whole function returns []
\* when it fails; else the file is compiled and the loop goes on, or ends.
ReadFileSettles ==
    /\ load.pc = "readFile"
    /\ LET file == load.graphqlFiles[load.i]
       IN  IF file.readable
           THEN LET operations == load.operations \o compileFile(file)
                IN  IF load.i = Len(load.graphqlFiles)
                    THEN load' = Returned([load EXCEPT !.operations = operations],
                                          operations)
                    ELSE load' = [load EXCEPT !.operations = operations,
                                              !.i = load.i + 1]
           ELSE load' = Returned(load, <<>>)
    /\ UNCHANGED <<toolVars, httpVars, scan, conv, folder, boot>>

\* No operation-compiler function is running.
OpsIdle ==
    /\ scan = NoScan
    /\ conv = NoConv
    /\ folder = NoFolder
    /\ load = NotLoading

\* ----------------------------------------------------------------- startup

\* process.env, as far as EnvSchema validates it: each variable unset, set to
\* a value its validator accepts, or set to one it rejects.
TransportTexts == {"undefined", "stdio", "http", "sse"}
AllowMutationsTexts == {"undefined", "true", "false", "yes"}
EndpointTexts == {"undefined", "https://api.example.com/graphql", "not a url"}
HeadersTexts == {"undefined", "{\"Authorization\":\"Bearer t\"}", "{bad"}

RawEnvs ==
    [TRANSPORT : TransportTexts, ALLOW_MUTATIONS : AllowMutationsTexts,
     ENDPOINT : EndpointTexts, HEADERS : HeadersTexts]

\* z.string().url(): the URL constructor accepts the text.
IsUrl(text) == text = "https://api.example.com/graphql"

\* JSON.parse(val) returns.
IsJson(text) == text = "{\"Authorization\":\"Bearer t\"}"

\* EnvSchema.parse with a slip: a HEADERS value that is no JSON is replaced by
\* the default instead of throwing.
EnvSchemaAcceptsUnparsedHeaders(raw) ==
    /\ raw.TRANSPORT \in {"undefined", "stdio", "http"}
    /\ raw.ALLOW_MUTATIONS \in {"undefined", "true", "false"}
    /\ raw.ENDPOINT = "undefined" \/ IsUrl(raw.ENDPOINT)

\* EnvSchema.parse(process.env) returns: every variable is unset (its default
\* applies) or passes its validator; else parse throws.
EnvSchemaAccepts(raw) ==
    /\ raw.TRANSPORT \in {"undefined", "stdio", "http"}
    /\ raw.ALLOW_MUTATIONS \in {"undefined", "true", "false"}
    /\ raw.ENDPOINT = "undefined" \/ IsUrl(raw.ENDPOINT)
    /\ raw.HEADERS = "undefined" \/ IsJson(raw.HEADERS)

\* The value EnvSchema.parse returns: defaults and transforms applied.
EnvSchemaParse(raw) ==
    [ALLOW_MUTATIONS |-> raw.ALLOW_MUTATIONS = "true",
     SCHEMA |-> [defined |-> FALSE, value |-> <<>>],
     TRANSPORT |-> IF raw.TRANSPORT = "undefined" THEN "stdio" ELSE raw.TRANSPORT]

\* const env is not initialised yet.
NoEnv ==
    [ALLOW_MUTATIONS |-> FALSE, SCHEMA |-> [defined |-> FALSE, value |-> <<>>],
     TRANSPORT |-> "none"]

\* The module starts to run with process.env = raw.
Starting(raw) == [pc |-> "start", raw |-> raw]

\* The server is up on the given transport.
Started(transport) ==
    [pc |-> IF transport = "http" THEN "serving" ELSE "connected",
     raw |-> [TRANSPORT |-> transport, ALLOW_MUTATIONS |-> "undefined",
              ENDPOINT |-> "undefined", HEADERS |-> "undefined"]]

\* Line 44: const env = EnvSchema.parse(process.env). A throw at the top level
\* of the module ends the process before main() is called.
ParseEnv ==
    /\ boot.pc = "start"
    /\ IF EnvSchemaAccepts(boot.raw)
       THEN /\ env' = EnvSchemaParse(boot.raw)
            /\ boot' = [boot EXCEPT !.pc = "parsed"]
       ELSE /\ boot' = [boot EXCEPT !.pc = "aborted"]
            /\ UNCHANGED env
    /\ UNCHANGED <<call, ncalls, httpVars, opsVars>>

\* main(), lines 223-399: over stdio the server is connected to a new
\* StdioServerTransport; over http the server is created, listen() opens the
\* listener and the SIGINT handler is registered.
Main ==
    /\ boot.pc = "parsed"
    /\ IF env.TRANSPORT = "stdio"
       THEN /\ boot' = [boot EXCEPT !.pc = "connecting"]
            /\ UNCHANGED listening
       ELSE /\ boot' = [boot EXCEPT !.pc = "serving"]
            /\ listening' = TRUE
    /\ UNCHANGED <<toolVars, transports, handles, reqs, nextSid, sigint, acked, opsVars>>

\* await server.connect(transport) settles (line 226); when it rejects,
\* main().catch exits the process (lines 403-406).
StdioConnects ==
    /\ boot.pc = "connecting"
    /\ \E ok \in BOOLEAN : boot' = [boot EXCEPT !.pc = IF ok THEN "connected" ELSE "failed"]
    /\ UNCHANGED <<toolVars, httpVars, opsVars>>

\* --------------------------------------------------------- specifications

\* The tool dispatcher: any accepted environment, no invocation yet.
InitTools ==
    /\ env \in ToolEnvs
    /\ call = Idle
    /\ ncalls = 0
    /\ HttpIdle
    /\ listening = FALSE
    /\ OpsIdle
    /\ boot = Started("stdio")

NextTools ==
    \/ Invoke
    \/ Return
    \/ Validate
    \/ Dispatch
    \/ FetchSettles
    \/ ReadBody
    \/ Introspect
    \/ ReadResource
    \/ HelperSettles

SpecTools == InitTools /\ [][NextTools]_vars

\* HTTP mode (TRANSPORT=http): the listener is up, no session yet.
Init ==
    /\ env = [ALLOW_MUTATIONS |-> FALSE,
              SCHEMA |-> [defined |-> FALSE, value |-> <<>>],
              TRANSPORT |-> "http"]
    /\ call = Idle
    /\ ncalls = 0
    /\ HttpIdle
    /\ listening = TRUE
    /\ OpsIdle
    /\ boot = Started("http")

Next ==
    \/ PostArrive
    \/ \E i \in 1..Len(reqs) : PostEnd(i)
    \/ \E i \in 1..Len(reqs) : PostConnected(i)
    \/ \E i \in 1..Len(reqs) : PostRespond(i)
    \/ Get
    \/ \E i \in 1..Len(reqs) : Disconnect(i)
    \/ Delete
    \/ \E i \in 1..Len(reqs) : DeleteResume(i)
    \/ OtherMethod
    \/ \E i \in 1..Len(reqs) : ConnectionEnds(i)
    \/ Sigint
    \/ SigintResume
    \/ SigintLoop
    \/ Exit

Spec == Init /\ [][Next]_vars

\* HTTP mode with requests side by side: the same server, holding up to
\* MaxPair requests at one time.
NextPair ==
    \/ PostArriveWithin(MaxPair)
    \/ \E i \in 1..Len(reqs) : PostEnd(i)
    \/ \E i \in 1..Len(reqs) : PostConnected(i)
    \/ \E i \in 1..Len(reqs) : PostRespond(i)
    \/ GetWithin(MaxPair)
    \/ \E i \in 1..Len(reqs) : Disconnect(i)
    \/ DeleteWithin(MaxPair)
    \/ \E i \in 1..Len(reqs) : DeleteResume(i)
    \/ OtherMethodWithin(MaxPair)
    \/ \E i \in 1..Len(reqs) : ConnectionEnds(i)
    \/ Sigint
    \/ SigintResume
    \/ SigintLoop
    \/ Exit

SpecPair == Init /\ [][NextPair]_vars

\* The environment and the servers as the operation compiler leaves them: it
\* reads and writes none of them.
Elsewhere ==
    /\ env = [ALLOW_MUTATIONS |-> FALSE,
              SCHEMA |-> [defined |-> FALSE, value |-> <<>>],
              TRANSPORT |-> "stdio"]
    /\ call = Idle
    /\ ncalls = 0
    /\ HttpIdle
    /\ listening = FALSE
    /\ boot = Started("stdio")

\* extractDescriptionFromComments, called with any file text.
InitExtract ==
    /\ Elsewhere
    /\ scan \in { Scanning(content) : content \in FileTexts }
    /\ conv = NoConv
    /\ folder = NoFolder
    /\ load = NotLoading

NextExtract == Extract

SpecExtract == InitExtract /\ [][NextExtract]_vars

\* graphqlTypeToZod, called with any variable definition.
InitZod ==
    /\ Elsewhere
    /\ scan = NoScan
    /\ conv \in { Converting(varDef) : varDef \in VariableDefinitions }
    /\ folder = NoFolder
    /\ load = NotLoading

NextZod == Convert

SpecZod == InitZod /\ [][NextZod]_vars

\* The process starts with any environment.
InitStartup ==
    /\ env = NoEnv
    /\ call = Idle
    /\ ncalls = 0
    /\ HttpIdle
    /\ listening = FALSE
    /\ OpsIdle
    /\ boot \in { Starting(raw) : raw \in RawEnvs }

NextStartup ==
    \/ ParseEnv
    \/ Main
    \/ StdioConnects

SpecStartup == InitStartup /\ [][NextStartup]_vars

\* loadGraphQLOperations, called on any operations folder.
InitOps ==
    /\ Elsewhere
    /\ scan = NoScan
    /\ conv = NoConv
    /\ folder \in Folders
    /\ load = Loading

NextOps ==
    \/ ReaddirSettles
    \/ ReadFileSettles

SpecOps == InitOps /\ [][NextOps]_vars

\* ------------------------------------------------ claims: HTTP sessions

\* C1 as claimed: a POST whose mcp-session-id names no registry entry is
\* refused; only a POST without a session id makes the server create a
\* transport handle and connect to it.
C1_UnknownIdCreatesNothing ==
    \A i \in 1..Len(reqs) :
        (reqs[i].method = "POST" /\ reqs[i].sid # NoSid) =>
            /\ ~reqs[i].isNew
            /\ reqs[i].transport # 0 => handles[reqs[i].transport].sessionId = reqs[i].sid

\* C2: a GET or DELETE that arrives without a session id, or with an id that
\* has no registry entry, is answered at once with 404 / -32001 "Session not
\* found"; the step leaves the registry, every handle and every other request
\* as they were.
C2_GetDeleteUnknownSession ==
    [][ (Len(reqs') = Len(reqs) + 1
            /\ reqs'[Len(reqs')].method \in {"GET", "DELETE"}
            /\ (reqs'[Len(reqs')].sid = NoSid
                  \/ Lookup(transports, reqs'[Len(reqs')].sid) = 0))
        => /\ reqs'[Len(reqs')].pc = "done"
           /\ reqs'[Len(reqs')].resp = "404-session"
           /\ reqs'[Len(reqs')].transport = 0
           /\ SubSeq(reqs', 1, Len(reqs)) = reqs
           /\ transports' = transports
           /\ handles' = handles ]_vars

\* C2 witness: with a session in the registry, a GET or DELETE naming another
\* id has been answered "Session not found".
C2_Witness ==
    /\ \E s \in Sids : transports[s] # 0
    /\ \E i \in 1..Len(reqs) :
          /\ reqs[i].method \in {"GET", "DELETE"}
          /\ reqs[i].sid # NoSid
          /\ reqs[i].resp = "404-session"

\* The request has been served.
Succeeded(r) ==
    r.resp \in {"200-initialized", "200-rpc", "200-deleted"} \/ r.pc = "streaming"

\* C3 as claimed: once a DELETE of a session has been answered 200, the
\* session's handle is closed, its registry entry is gone, and no request that
\* arrives later with that id is served.
C3_DeletedSessionRefused ==
    /\ \A s \in acked :
          /\ transports[s] = 0
          /\ \A h \in 1..Len(handles) : handles[h].sessionId = s => handles[h].closed
    /\ \A i \in 1..Len(reqs) : reqs[i].late => ~Succeeded(reqs[i])

\* C4 as claimed: when the shutdown handler has stopped the listener, the
\* registry is empty and every handle that held a session is closed.
C4_ShutdownClosesEverything ==
    sigint.pc \in {"closed", "exited"} =>
        /\ transports = EmptyRegistry
        /\ \A h \in 1..Len(handles) : handles[h].sessionId # NoSid => handles[h].closed

\* ------------------------------------------------- claims: tool handlers

\* The query text holds a mutation operation definition.
HasMutationText(q) == \E i \in 1..Len(q) : q[i] = "mutation"

\* The query text is one the GraphQL grammar accepts.
WellFormedText(q) == q # <<>> /\ \A i \in 1..Len(q) : q[i] # "?"

\* The text with every mutation keyword turned into the query keyword.
AsQueryText(q) == [i \in 1..Len(q) |-> IF q[i] = "mutation" THEN "query" ELSE q[i]]

QueryCall == call.tool = "query-graphql"

\* C5: with ALLOW_MUTATIONS false, a query-graphql invocation whose document
\* parses and holds a mutation definition (alone or beside other definitions)
\* never sends a request to the backend, never gets past validation, and ends
\* with an error result.
C5_MutationRejectedWithoutRequest ==
    (QueryCall /\ ~env.ALLOW_MUTATIONS
        /\ WellFormedText(call.query) /\ HasMutationText(call.query))
    => /\ call.requests = <<>>
       /\ call.pc \in {"received", "rejected"}
       /\ call.pc = "rejected" => call.result.tag = "error"

\* C5 witness: a document with a query and then a mutation has been rejected.
C5_Witness ==
    /\ QueryCall
    /\ ~env.ALLOW_MUTATIONS
    /\ call.query = <<"query", "mutation">>
    /\ call.pc = "rejected"
    /\ call.result.text = "Mutations are not allowed"
    /\ call.requests = <<>>

\* C6: the flag decides nothing but the fate of mutation documents. A finished
\* invocation is the run of the handler under the configured flag; when the
\* document holds no mutation, the run under the other flag ends in the same
\* position with the same result and the same backend requests; and with the
\* flag true a mutation document ends as the same document with its mutations
\* written as queries does, the backend request carrying the text as supplied.
C6_FlagOnlyGatesMutations ==
    (QueryCall /\ call.pc \in Terminal) =>
        LET q == call.query
            v == call.variables
            net == call.response
            asQuery == RunQuery(TRUE, AsQueryText(q), v, net)
        IN  /\ call = RunQuery(env.ALLOW_MUTATIONS, q, v, net)
            /\ ~HasMutationText(q) => call = RunQuery(~env.ALLOW_MUTATIONS, q, v, net)
            /\ (env.ALLOW_MUTATIONS /\ HasMutationText(q)) =>
                  /\ call.pc = asQuery.pc
                  /\ call.result = asQuery.result
                  /\ Len(call.requests) = Len(asQuery.requests)
                  /\ \A i \in 1..Len(call.requests) :
                        /\ call.requests[i].query = q
                        /\ call.requests[i].variables = v

\* C6 witness: with the flag true a mutation document was forwarded and
\* answered, and with the flag false a subscription document was.
C6_Witness ==
    /\ QueryCall
    /\ call.pc = "success"
    /\ Len(call.requests) = 1
    /\ \/ env.ALLOW_MUTATIONS /\ call.query = <<"mutation">>
       \/ ~env.ALLOW_MUTATIONS /\ call.query = <<"subscription">>

\* C7: a query text that fails to parse ends the invocation at once with the
\* "Invalid GraphQL query" error result, and no request reaches the backend.
C7_ParseFailureRejected ==
    (QueryCall /\ ~WellFormedText(call.query)) =>
        /\ call.requests = <<>>
        /\ call.pc \in {"received", "rejected"}
        /\ call.pc = "rejected" =>
              /\ call.result.tag = "error"
              /\ call.result.text = "Invalid GraphQL query"

\* C7 witness: an empty text and a text with a stray token have been rejected.
C7_Witness ==
    /\ QueryCall
    /\ call.query \in {<<>>, <<"query", "?">>}
    /\ call.pc = "rejected"
    /\ call.result.text = "Invalid GraphQL query"

\* The invocation passed parsing and the mutation check.
PassedChecks ==
    /\ QueryCall
    /\ WellFormedText(call.query)
    /\ env.ALLOW_MUTATIONS \/ ~HasMutationText(call.query)

\* C8 as claimed: an invocation that passed the checks has, when it ends, sent
\* exactly one POST, and for the response it got the result is an error for a
\* non-success status, an error for a success status with a non-empty errors
\* array, and otherwise a success carrying the pretty-printed body.
C8_OnePostAndShapedResult ==
    (PassedChecks /\ call.pc \in Terminal) =>
        /\ Len(call.requests) = 1
        /\ call.requests[1].method = "POST"
        /\ call.response.arrived =>
              IF ~call.response.ok
              THEN call.result.tag = "error"
              ELSE IF call.response.body.hasErrors /\ call.response.body.errors # <<>>
              THEN call.result.tag = "error"
              ELSE /\ call.result.tag = "ok"
                   /\ call.result.format = "pretty"
                   /\ call.result.body = call.response.body

\* C9 as claimed: every query-graphql invocation ends with a tagged result
\* handed to the caller, an error result for every failure, and never throws.
C9_AlwaysTaggedResult ==
    (QueryCall /\ call.pc \in Terminal) =>
        /\ call.result.tag \in {"ok", "error"}
        /\ call.pc \in {"rejected", "backend-error"} <=> call.result.tag = "error"

\* The schema override names a remote schema.
IsUrlText(s) == StartsWith(s, HttpPrefix) \/ StartsWith(s, HttpsPrefix)

\* C10 as claimed: introspect-schema fetches the schema from the URL when the
\* override is an http(s) URL, reads the local file when it is a path, and
\* introspects the endpoint when no override is set.
C10_SchemaSourcePriority ==
    (call.tool = "introspect-schema" /\ call.helper # "none") =>
        IF ~Truthy(env.SCHEMA)
        THEN call.helper = "introspectEndpoint"
        ELSE IF IsUrlText(env.SCHEMA.value)
        THEN call.helper = "introspectSchemaFromUrl" /\ call.helperArg = env.SCHEMA.value
        ELSE call.helper = "introspectLocalSchema" /\ call.helperArg = env.SCHEMA.value

\* C11: whichever schema source the environment configures, an introspect-schema
\* invocation never throws: it ends only with the schema text or, when the
\* helper failed, with the "Failed to introspect schema" error result.
C11_IntrospectNeverThrows ==
    call.tool = "introspect-schema" =>
        /\ call.pc \in {"received", "resolving", "success", "backend-error"}
        /\ call.result.tag # "thrown"
        /\ call.pc = "success" => call.result.tag = "ok"
        /\ call.pc = "backend-error" =>
              /\ call.result.tag = "error"
              /\ call.result.text = "Failed to introspect schema"
              /\ call.helper \in {"introspectLocalSchema", "introspectEndpoint"}

\* C11 witness: with a schema override configured, the helper failed and the
\* tool returned the error result.
C11_Witness ==
    /\ call.tool = "introspect-schema"
    /\ Truthy(env.SCHEMA)
    /\ call.helper = "introspectLocalSchema"
    /\ call.pc = "backend-error"
    /\ call.result.tag = "error"

\* --------------------------------------------- claims: operation compiler

\* The folder holds one readable operation file with this text, and the load
\* has returned.
LoadedAlone(content) ==
    /\ load.pc = "returned"
    /\ folder.readable
    /\ Len(folder.files) = 1
    /\ folder.files[1].ext = ".graphql"
    /\ folder.files[1].readable
    /\ folder.files[1].content = content

\* C12 as claimed: a file with the line `# @description: Creates a user` right
\* before `mutation CreateUser($input: CreateUserInput!) {...}` loads as one
\* descriptor with the description "Creates a user" and the variable schema
\* { input: required object }.
C12_InlineMarkerDescription ==
    LoadedAlone(CreateUserText) =>
        /\ Len(load.result) = 1
        /\ load.result[1].description = <<"Creates", " ", "a", " ", "user">>
        /\ load.result[1].variables = [n \in {"input"} |-> Zod("record", FALSE, FALSE)]

\* The line holds the marker token.
HoldsMarker(line) == includes(trim(line), Marker)

\* The line is a comment line.
IsComment(line) == startsWithHash(trim(line))

\* A comment line without its leading '#' and the white space around the rest.
Stripped(line) == trim(Tail(trim(line)))

\* The least number of a non-empty set of numbers.
Least(S) == CHOOSE n \in S : \A k \in S : n <= k

\* The stripped lines lines[i], i in S, in file order.
RECURSIVE StrippedLines(_, _)
StrippedLines(lines, S) ==
    IF S = {} THEN <<>>
    ELSE <<Stripped(lines[Least(S)])>> \o StrippedLines(lines, S \ {Least(S)})

CompilingFile == load.graphqlFiles[load.i]
Compiling == load.pc = "readFile" /\ CompilingFile.readable

\* The descriptors the step has pushed.
Pushed == SubSeq(load'.operations, Len(load.operations) + 1, Len(load'.operations))

\* No line of the text holds the marker token.
NoMarker(content) == \A i \in 1..Len(content) : ~includes(content[i], Marker)

TableKind(typeName) ==
    CASE typeName = <<"String">> -> "string"
      [] typeName = <<"ID">> -> "string"
      [] typeName = <<"Int">> -> "number"
      [] typeName = <<"Float">> -> "number"
      [] typeName = <<"Boolean">> -> "boolean"
      [] typeName = <<"CreateUser", "Input">> -> "record"
      [] typeName = <<"Input">> -> "record"
      [] typeName = <<"User", "Type">> -> "record"
      [] typeName = <<"Date", "Time">> -> "string"
      [] typeName = <<"Input", "Data">> -> "string"

\* C15: for a variable declared with a named type, under an optional list
\* wrapper (with or without `!` on the item) and an optional outer `!`, with or
\* without a default value, the validator has the kind the table gives for the
\* type name, is a list exactly when the type is list-wrapped, and is required
\* exactly when the type has the outer `!` and the variable has no default
\* value. So ID! is a required string, [String] an optional list of strings
\* and Int! = 5 an optional number.
C15_MappingTable ==
    conv.pc = "returned" =>
        LET varDef == conv.varDef
            outerNonNull == varDef.type.kind = "NonNullType"
            inner == IF outerNonNull THEN varDef.type.type ELSE varDef.type
            listWrapped == inner.kind = "ListType"
            item == IF listWrapped THEN inner.type ELSE inner
            named == IF item.kind = "NonNullType" THEN item.type ELSE item
        IN  /\ named.kind = "NamedType" =>
                  /\ ~conv.zodType.null
                  /\ conv.zodType.base = TableKind(named.name)
                  /\ conv.zodType.array <=> listWrapped
                  /\ ~conv.zodType.optional <=> (outerNonNull /\ ~varDef.hasDefaultValue)
            /\ varDef = VariableDefinition("v", NonNullType(NamedType(<<"ID">>)), FALSE)
                  => conv.zodType = Zod("string", FALSE, FALSE)
            /\ varDef = VariableDefinition("v", ListType(NamedType(<<"String">>)), FALSE)
                  => conv.zodType = Zod("string", TRUE, TRUE)
            /\ varDef = VariableDefinition("v", NonNullType(NamedType(<<"Int">>)), TRUE)
                  => conv.zodType = Zod("number", FALSE, TRUE)

\* C15 witness: $v: [CreateUserInput!]! = [] has become an optional list of
\* permissive objects.
C15_Witness ==
    /\ conv.pc = "returned"
    /\ conv.varDef =
          VariableDefinition("v",
              NonNullType(ListType(NonNullType(NamedType(<<"CreateUser", "Input">>)))),
              TRUE)
    /\ conv.zodType = Zod("record", TRUE, TRUE)

\* The source items that are operation definitions.
OperationItems ==
    {"query", "mutation", "subscription", "{}", GetUserItem, CreateUserItem, ByTagsItem}

\* The number of operation definitions among the source items.
RECURSIVE CountOperations(_)
CountOperations(items) ==
    IF items = <<>> THEN 0
    ELSE (IF Head(items) \in OperationItems THEN 1 ELSE 0) + CountOperations(Tail(items))

\* C16: when the loader compiles a file that parses and holds k >= 1 operation
\* definitions, it pushes exactly k descriptors after those it already has,
\* and the query of each of the k is the whole content of the file.
C16_OneDescriptorPerOperation ==
    [][ (Compiling /\ parse(sourceItems(CompilingFile.content)).ok
           /\ CountOperations(sourceItems(CompilingFile.content)) >= 1) =>
          /\ Len(Pushed) = CountOperations(sourceItems(CompilingFile.content))
          /\ SubSeq(load'.operations, 1, Len(load.operations)) = load.operations
          /\ \A j \in 1..Len(Pushed) : Pushed[j].query = CompilingFile.content ]_vars

\* C16 witness: a file with a description and two operations, after another
\* file, has given two descriptors that carry its whole text.
C16_Witness ==
    /\ load.pc = "returned"
    /\ Len(load.graphqlFiles) = 2
    /\ load.graphqlFiles[1].content = GetUserText
    /\ load.graphqlFiles[2].content = DescribedText
    /\ Len(load.result) = 3
    /\ load.result[2].query = DescribedText
    /\ load.result[3].query = DescribedText
    /\ load.result[2].description = load.result[3].description

\* The .graphql entry can be read and its text parses.
Loadable(file) ==
    /\ file.ext = ".graphql"
    /\ file.readable
    /\ parse(sourceItems(file.content)).ok

\* The descriptors of the loadable entries of a listing, in listing order.
RECURSIVE DescriptorsOf(_)
DescriptorsOf(files) ==
    IF files = <<>> THEN <<>>
    ELSE (IF Loadable(Head(files)) THEN compileFile(Head(files)) ELSE <<>>)
         \o DescriptorsOf(Tail(files))

\* C17 as claimed: loadGraphQLOperations always returns; for a folder that is
\* missing or cannot be read it returns the empty sequence; otherwise an entry
\* that does not parse is skipped and the result holds the descriptors of
\* every entry that can be read and parsed, before and after it.
C17_LoadSkipsOnlyTheFailingFile ==
    load.pc = "returned" =>
        IF folder.readable
        THEN load.result = DescriptorsOf(folder.files)
        ELSE load.result = <<>>

\* C18 as claimed: no two descriptors returned by one load have the same name.
C18_NamesUnique ==
    load.pc = "returned" =>
        \A i, j \in 1..Len(load.result) :
            i # j => load.result[i].name # load.result[j].name

\* C19 as claimed: every operation a load of the operations folder returns has
\* its generated tool on the tool surface, beside the two built-in tools.
C19_GeneratedToolPerOperation ==
    load.pc = "returned" =>
        \A i \in 1..Len(load.result) : load.result[i].name \in RegisteredTools

\* C20 as claimed: a GET that carries no session id (the health check on `/`;
\* the request handler never reads the path of a request) is answered with the
\* liveness information, not with "Session not found", whatever the registry
\* holds.
C20_HealthCheckAnswered ==
    \A i \in 1..Len(reqs) :
        (reqs[i].method = "GET" /\ reqs[i].sid = NoSid /\ reqs[i].pc = "done")
            => reqs[i].resp # "404-session"

\* ----------------------------------------------------------- claims: startup

\* A recognized configuration value is invalid.
InvalidConfiguration(raw) ==
    \/ raw.TRANSPORT \notin {"undefined", "stdio", "http"}
    \/ raw.ALLOW_MUTATIONS \notin {"undefined", "true", "false"}
    \/ raw.ENDPOINT \in {"not a url"}
    \/ raw.HEADERS \in {"{bad"}

\* C21: when TRANSPORT, ALLOW_MUTATIONS, ENDPOINT or HEADERS is set to an
\* invalid value, the process never gets past the parsing of the environment:
\* no transport is connected or being connected, no transport handle exists
\* and the HTTP listener is not open.
C21_InvalidConfigurationAborts ==
    InvalidConfiguration(boot.raw) =>
        /\ boot.pc \in {"start", "aborted"}
        /\ ~listening
        /\ handles = <<>>
        /\ env = NoEnv

\* C21 witness: with TRANSPORT=http and HEADERS that is no JSON, startup has
\* aborted with the listener closed.
C21_Witness ==
    /\ boot.pc = "aborted"
    /\ boot.raw.TRANSPORT = "http"
    /\ boot.raw.HEADERS = "{bad"
    /\ boot.raw.ENDPOINT = "undefined"
    /\ boot.raw.ALLOW_MUTATIONS = "undefined"
    /\ ~listening

\* ------------------------------------------------------------------ C22
\* C22: the step that finishes reading a POST body that is not JSON answers
\* 400 with the parse-error envelope (-32700, id null), hands the request to no
\* transport handle, creates no handle and leaves the registry as it was.
C22_InvalidJsonAnswered ==
    [][\A i \in 1..Len(reqs) :
          (/\ reqs[i].pc = "reading"
           /\ reqs[i].body = "invalid"
           /\ Len(reqs') = Len(reqs)
           /\ reqs'[i] # reqs[i])
          => /\ reqs'[i].pc = "done"
             /\ reqs'[i].resp = "400-parse"
             /\ reqs'[i].transport = 0
             /\ handles' = handles
             /\ transports' = transports]_vars

\* A body that is not JSON, sent under the id of a stored session, has been
\* answered with the parse error; the session is still stored.
C22_Witness ==
    \E i \in 1..Len(reqs) :
        /\ reqs[i].body = "invalid"
        /\ reqs[i].resp = "400-parse"
        /\ reqs[i].sid # NoSid
        /\ Lookup(transports, reqs[i].sid) # 0
        /\ ~handles[Lookup(transports, reqs[i].sid)].closed

\* ------------------------------------------------------------------ C23
\* C23: in every reachable state of HTTP mode the registry and the live
\* transport handles coincide: every registry entry maps to a handle that is
\* not closed, and every handle that is connected to the server and not closed
\* is stored in the registry under its session id (once the request that
\* created it has been answered).
C23_RegistryMatchesLiveHandles ==
    /\ \A s \in Sids :
          transports[s] # 0 => ~handles[transports[s]].closed
    /\ \A h \in 1..Len(handles) :
          (/\ handles[h].connected
           /\ ~handles[h].closed
           /\ \A i \in 1..Len(reqs) : reqs[i].transport = h => reqs[i].pc = "done")
          => /\ handles[h].sessionId # NoSid
             /\ Lookup(transports, handles[h].sessionId) = h

\* ------------------------------------------------------------------ C24
\* The responses that carry a JSON-RPC error envelope.
ErrorResponses ==
    {"400-parse", "400-already-initialized", "400-not-initialized",
     "404-session", "404-transport-session", "405-method", "409-conflict",
     "500-internal"}

\* The step closes handle h.
Closes(h) == ~handles[h].closed /\ handles'[h].closed

\* A step that closes handle h leaves every other session as it was: the other
\* handles, the registry entries of the other ids and the requests that are
\* not on h; and the process goes on.
OthersUntouched(h) ==
    /\ \A g \in 1..Len(handles) : g # h => handles'[g] = handles[g]
    /\ \A s \in Sids : transports[s] # h => transports'[s] = transports[s]
    /\ \A i \in 1..Len(reqs) : reqs[i].transport # h => reqs'[i] = reqs[i]
    /\ sigint'.pc # "exited"

\* Request i, in progress on a closed handle, is answered in this step.
EndsOnClosedHandle(i) ==
    /\ reqs[i].method # "DELETE"
    /\ reqs[i].pc # "done"
    /\ reqs[i].transport # 0
    /\ handles'[reqs[i].transport].closed
    /\ Len(reqs') >= Len(reqs)
    /\ reqs'[i].pc = "done"

HandedToSession(i) ==
    /\ reqs[i].method = "POST"
    /\ reqs[i].pc = "reading"
    /\ Len(reqs') = Len(reqs)
    /\ reqs'[i].transport # 0
    /\ ~reqs'[i].isNew

\* C25: within one session POST requests are handed to the session's handle
\* in the order in which they arrived: when a POST is handed over, no POST of
\* the same session that arrived before it is still waiting for its body to
\* end.
C25_FifoPerSession ==
    [][\A i \in 1..Len(reqs) :
          HandedToSession(i)
          => \A j \in 1..(i - 1) :
                ~(/\ reqs[j].method = "POST"
                  /\ reqs[j].pc = "reading"
                  /\ reqs[j].body # "invalid"
                  /\ reqs[j].sid = reqs[i].sid)]_vars

\* ------------------------------------------------------------------ C26
\* C26: when the loader compiles a file that parses, the variables of every
\* descriptor it pushes have an entry for each variable the operation
\* definition declares, whatever the shape of the declared type, nested lists
\* such as [[String]] included.
C26_EveryVariableHasAnEntry ==
    [][ (Compiling /\ parse(sourceItems(CompilingFile.content)).ok) =>
          LET definitions ==
                  operationDefinitions(parse(sourceItems(CompilingFile.content)))
          IN  /\ Len(Pushed) = Len(definitions)
              /\ \A j \in 1..Len(Pushed) :
                    \A k \in 1..Len(definitions[j].variableDefinitions) :
                        definitions[j].variableDefinitions[k].name
                            \in DOMAIN Pushed[j].variables ]_vars

\* ------------------------------------------------------------------ C27
\* The .graphql entries the load has read: those before the one it stopped
\* at, and that one when it could be read.
WasRead(k) ==
    /\ k \in 1..Len(load.graphqlFiles)
    /\ load.graphqlFiles[k].readable
    /\ k <= load.i

\* C27: a .graphql entry that cannot be read does not lose the others: the
\* result of a load of a readable folder holds the descriptors of every entry
\* that was read and whose text parses.
C27_ReadFailureKeepsTheOthers ==
    (load.pc = "returned" /\ folder.readable) =>
        \A k \in 1..Len(load.graphqlFiles) :
            (WasRead(k) /\ Loadable(load.graphqlFiles[k]))
            => \A j \in 1..Len(compileFile(load.graphqlFiles[k])) :
                  \E n \in 1..Len(load.result) :
                      load.result[n] = compileFile(load.graphqlFiles[k])[j]

\* ------------------------------------------------------------------ C28
\* The step is a DELETE whose transport.close() closes handle h.
DeleteCloses(h) ==
    /\ Len(reqs') = Len(reqs) + 1
    /\ reqs'[Len(reqs')].method = "DELETE"
    /\ reqs'[Len(reqs')].pc = "closing"
    /\ ~reqs'[Len(reqs')].threw
    /\ reqs'[Len(reqs')].transport = h

\* The step is an iteration of the shutdown loop whose close() closes handle h.
ShutdownCloses(h) ==
    /\ sigint' # sigint
    /\ sigint'.pc = "awaitClose"
    /\ ~sigint'.threw
    /\ transports[Head(sigint'.keys)] = h

\* C28: each transport handle is closed at most once: a DELETE or an iteration
\* of the shutdown loop that closes a handle finds it open, whatever other
\* DELETE on the same session id or shutdown loop is under way.
C28_ClosedAtMostOnce ==
    [][\A h \in 1..Len(handles) :
          (DeleteCloses(h) \/ ShutdownCloses(h))
          => /\ ~handles[h].closed
             /\ handles'[h].closed]_vars

\* Two DELETE requests on one session id side by side: the first has closed
\* the handle and awaits, the second has been answered "session not found".
C28_Witness ==
    \E i, j \in 1..Len(reqs) :
        /\ i < j
        /\ reqs[i].method = "DELETE" /\ reqs[j].method = "DELETE"
        /\ reqs[i].sid = reqs[j].sid
        /\ reqs[i].pc = "closing" /\ ~reqs[i].threw
        /\ handles[reqs[i].transport].closed
        /\ reqs[j].resp = "404-session"

\* ------------------------------------------------------------------ C29
\* C29: the parse-error envelope (-32700) answers only a POST whose body is
\* not JSON; a POST with a JSON body whose processing fails later, in
\* server.connect or in the handle's request handling, is not answered with
\* it.
C29_ParseErrorOnlyForInvalidJson ==
    \A i \in 1..Len(reqs) :
        reqs[i].resp = "400-parse" => reqs[i].body = "invalid"

====
